---- MODULE Spec2Model ----
(***************************************************************************)
(* The in-process request rate limiter of app/utils/rate_limiter.py.       *)
(*                                                                         *)
(* Time is time.time(): a real number of seconds.  It is modelled as an    *)
(* integer number of ticks, TicksPerSec ticks to the second, so that       *)
(* fractions of a second exist and int() truncation is observable.         *)
(* A window length `per` is given in whole seconds, as in every use of the *)
(* decorator in the repository, and is per * TicksPerSec ticks long.       *)
(*                                                                         *)
(* Two specifications share the definitions of the handler's steps:        *)
(*   Spec      requests are handled one after another (one action is the   *)
(*             whole of decorated_function);                               *)
(*   SpecConc  requests are handled by threads whose steps (scan expired   *)
(*             keys / pop them / read the entry / compare and write)       *)
(*             interleave, as under a threaded WSGI server: the module     *)
(*             holds no lock.                                              *)
(***************************************************************************)
EXTENDS Integers, Sequences, FiniteSets, TLC

\* ---- bounds of the model ------------------------------------------------
TicksPerSec == 2   \* clock ticks to the second
MaxTime == 6       \* last tick of the clock under Spec
MaxDrift == 2      \* most ticks between the two clock readings of a request
MaxLimit == 2      \* largest limit of a route
MaxPer == 2        \* longest window of a route, in seconds
MaxLogConc == 2    \* under SpecConc no request starts for a key with this many admissions on record
MaxTimeConc == 2   \* last tick of the clock under SpecConc
MaxTimeCfg == 1       \* the last tick of the clock while the lookups are called
MaxTimeRoute == 1  \* the last tick of the clock under SpecRoute
MaxDriftRoute == 1 \* most ticks between the two clock readings of a request under SpecRoute
MaxLogRoute == 2   \* under SpecRoute no request is served for a key with this many admissions on record
MaxTimeSliding == 5   \* the last tick of the clock under SpecSliding
MaxRequests == 2      \* largest max_requests of a RateLimiter
MaxWindow == 2        \* longest window of a RateLimiter, in seconds
MaxLogInvalid == 3 \* under SpecInvalid no request is served with this many admissions of a key on record

Keys == {"A", "B"}
Threads == {"t1", "t2"}

VARIABLES
    now,          \* the clock, in ticks
    limit,        \* key -> the limit of the route the key belongs to
    per,          \* key -> the window of that route, in seconds
    rate_limits,  \* _rate_limits: a dict key -> <<expiry, count>>
    last,         \* what the last completed request observed and returned
    log,          \* history: key -> the admissions <<time, expiry>> so far
    pc,           \* thread -> position in decorated_function
    tkey,         \* thread -> key of the request it handles
    expired_keys, \* thread -> the keys its sweep found expired
    tread,        \* thread -> its locals <<expiry, count>> after lines 98-103
    RATE_LIMITS,      \* the table of config/rate_limits.py
    APP_RATE_LIMITS,  \* the table RATE_LIMITS of app/utils/rate_limiter.py
    cfg,          \* the last call of a lookup function: its name, arguments, result
    testing,      \* current_app.config.get('TESTING')
    deco,         \* key -> the decorators of the route the key belongs to
    resp,         \* what the last request to a decorated route was answered with
    session,      \* client -> session.get('_csrf_token'), NoToken when it has none
    csrf,         \* the last call of generate_csrf_token or of a csrf_protect view
    max_requests, \* RateLimiter.max_requests
    window,       \* RateLimiter.window, in seconds
    requests,     \* RateLimiter.requests: identifier -> list of timestamps
    rl            \* the last call of RateLimiter.is_rate_limited

appvars == <<testing, deco, resp, session, csrf, max_requests, window, requests, rl>>
cfgvars == <<RATE_LIMITS, APP_RATE_LIMITS, cfg, appvars>>
vars == <<now, limit, per, rate_limits, last, log, pc, tkey, expired_keys, tread, cfgvars>>
thvars == <<pc, tkey, expired_keys, tread>>

\* ---- arithmetic on times --------------------------------------------------
\* int(x) of a float number of seconds: truncation toward zero.
IntSec(x) == IF x >= 0 THEN x \div TicksPerSec ELSE -((-x) \div TicksPerSec)

\* ceil(x) of a number of seconds (used by the claims, not by the code).
CeilSec(x) == -((-x) \div TicksPerSec)

PerTicks(k) == per[k] * TicksPerSec

Max(a, b) == IF a >= b THEN a ELSE b

\* ---- the dict ---------------------------------------------------------------
Has(d, k) == k \in DOMAIN d

\* Variant: an entry that expires at the very time of the sweep is kept.
ExpiredKeysStrict(d, current_time) == {k \in DOMAIN d : d[k][1] < current_time}

\* Variant: the comparison of the sweep is turned around.
ExpiredKeysInverted(d, current_time) ==
    {k \in DOMAIN d : d[k][1] >= current_time}

\* clear_expired_limits: the keys whose expiry is <= current_time ...
ExpiredKeys(d, current_time) ==
    {k \in DOMAIN d : d[k][1] <= current_time}

\* ... and _rate_limits.pop(key, None) for each of them.
PopAll(d, ks) == [k \in (DOMAIN d) \ ks |-> d[k]]

clear_expired_limits(d, current_time) ==
    PopAll(d, ExpiredKeys(d, current_time))

\* _rate_limits.get(key, (current_time + per, 0))
GetEntry(d, k, current_time) ==
    IF Has(d, k) THEN d[k] ELSE <<current_time + PerTicks(k), 0>>

\* Variant: every request moves the expiry of the window it falls in.
WindowPostponed(d, k, current_time) ==
    LET e == GetEntry(d, k, current_time)
    IN  IF current_time > e[1]
        THEN <<current_time + PerTicks(k), 0>>
        ELSE <<current_time + PerTicks(k), e[2]>>

\* Variant: a new window is opened but the count is carried over.
WindowKeepsCount(d, k, current_time) ==
    LET e == GetEntry(d, k, current_time)
    IN  IF current_time > e[1]
        THEN <<current_time + PerTicks(k), e[2]>>
        ELSE e

\* "Check if the time window has expired": count and expiry after lines 98-103.
Window(d, k, current_time) ==
    LET e == GetEntry(d, k, current_time)
    IN  IF current_time > e[1]
        THEN <<current_time + PerTicks(k), 0>>
        ELSE e

\* Variant: the comparison lets one request too many through.
ExceededOffByOne(count, lim) == count > lim

\* "Check if the rate limit has been exceeded"
Exceeded(count, lim) == count >= lim

\* Variant: the second added to the truncated difference is left out.
RetryAfterFloor(expiry, current_time) == IntSec(expiry - current_time)

\* Variant: the difference is taken the wrong way round.
RetryAfterSwapped(expiry, current_time) == IntSec(current_time - expiry) + 1

\* retry_after = int(expiry - current_time) + 1
RetryAfter(expiry, current_time) == IntSec(expiry - current_time) + 1

\* _rate_limits[key] = (expiry, count)
Store(d, k, e) == [x \in (DOMAIN d) \cup {k} |-> IF x = k THEN e ELSE d[x]]

\* Variant: the counter is stored before the limit is compared.
AfterCheckCountsRejected(d, k, w, lim) == Store(d, k, <<w[1], w[2] + 1>>)

\* lines 105-112: the dict after the comparison of the local count w[2] with
\* the limit: untouched when RateLimitExceeded is raised, else the entry of k
\* is stored with the count incremented.
AfterCheck(d, k, w, lim) ==
    IF Exceeded(w[2], lim) THEN d ELSE Store(d, k, <<w[1], w[2] + 1>>)

\* lines 90-112 as a function of the dict and of the two clock readings: the
\* dict afterwards, whether f is invoked, and the window that was compared.
Handle(d, k, sweep_time, current_time) ==
    LET swept == clear_expired_limits(d, sweep_time)
        w == Window(swept, k, current_time)
    IN  [dict |-> AfterCheck(swept, k, w, limit[k]),
         admitted |-> ~Exceeded(w[2], limit[k]),
         w |-> w]

\* Variant: remaining is computed from the count before the increment.
RemainingStale(lim, count) == Max(0, lim - (count - 1))

\* remaining = max(0, limit - count); reset = int(expiry)
Remaining(lim, count) == Max(0, lim - count)
Reset(expiry) == IntSec(expiry)

\* ---- the configuration tables ---------------------------------------------------
\* A table entry is a pair (requests, seconds) or a dict of subcategories.
Flat(count, seconds) == [nested |-> FALSE, pair |-> <<count, seconds>>, sub |-> <<>>]
Nested(sub) == [nested |-> TRUE, pair |-> <<0, 0>>, sub |-> sub]

\* RATE_LIMITS of config/rate_limits.py, lines 8-37.
ConfigTable ==
    [c \in {"public", "auth", "api", "sensitive", "uploads", "admin", "search"} |->
        CASE c = "public" -> Flat(100, 60)
          [] c = "auth" -> Nested(("login" :> <<5, 60>>) @@ ("register" :> <<3, 60>>)
                                  @@ ("password_reset" :> <<3, 60>>))
          [] c = "api" -> Nested(("default" :> <<1000, 3600>>) @@ ("public" :> <<100, 60>>)
                                 @@ ("authenticated" :> <<500, 300>>))
          [] c = "sensitive" -> Flat(10, 60)
          [] c = "uploads" -> Flat(20, 300)
          [] c = "admin" -> Flat(200, 60)
          [] c = "search" -> Flat(30, 60)]

\* RATE_LIMITS of app/utils/rate_limiter.py, lines 138-143.
AppTable ==
    [c \in {"public", "auth", "api", "strict"} |->
        CASE c = "public" -> <<100, 60>>
          [] c = "auth" -> <<10, 60>>
          [] c = "api" -> <<1000, 3600>>
          [] c = "strict" -> <<5, 60>>]

\* What a lookup returns: a pair, or the KeyError it raises.
Ok(v) == [ok |-> TRUE, v |-> v]
KeyError == [ok |-> FALSE, v |-> <<>>]

\* The argument subcategory=None.
None == "None"

\* Variant: an unknown category falls back to a default pair.
get_rate_limit_silent(T, category, subcategory) ==
    IF category \notin DOMAIN T THEN Ok(<<100, 60>>)
    ELSE IF T[category].nested
         THEN IF subcategory \notin DOMAIN T[category].sub
              THEN IF "default" \in DOMAIN T[category].sub
                   THEN Ok(T[category].sub["default"])
                   ELSE KeyError
              ELSE Ok(T[category].sub[subcategory])
         ELSE Ok(T[category].pair)

\* get_rate_limit of config/rate_limits.py, lines 39-69.
get_rate_limit(T, category, subcategory) ==
    IF category \notin DOMAIN T THEN KeyError
    ELSE LET limits == T[category]
         IN  IF limits.nested
             THEN IF subcategory \notin DOMAIN limits.sub
                  THEN IF "default" \in DOMAIN limits.sub
                       THEN Ok(limits.sub["default"])
                       ELSE KeyError
                  ELSE Ok(limits.sub[subcategory])
             ELSE Ok(limits.pair)

\* get_rate_limit of app/utils/rate_limiter.py, lines 145-154:
\* RATE_LIMITS.get(category, (100, 60)).
app_get_rate_limit(T, category) ==
    IF category \in DOMAIN T THEN Ok(T[category]) ELSE Ok(<<100, 60>>)

\* ---- endpoint names ---------------------------------------------------------------
\* A string that is searched by prefix is the sequence of its characters.
P_auth_login == <<"a", "u", "t", "h", ".", "l", "o", "g", "i", "n">>
P_auth_register == <<"a", "u", "t", "h", ".", "r", "e", "g", "i", "s", "t", "e", "r">>
P_auth_forgot_password == <<"a", "u", "t", "h", ".", "f", "o", "r", "g", "o", "t", "_", "p", "a", "s", "s", "w", "o", "r", "d">>
P_auth_reset_password == <<"a", "u", "t", "h", ".", "r", "e", "s", "e", "t", "_", "p", "a", "s", "s", "w", "o", "r", "d">>
P_api_v1 == <<"a", "p", "i", ".", "v", "1", ".">>
P_api_public == <<"a", "p", "i", ".", "p", "u", "b", "l", "i", "c", ".">>
P_api == <<"a", "p", "i", ".">>
P_admin == <<"a", "d", "m", "i", "n", ".">>
P_upload == <<"u", "p", "l", "o", "a", "d", ".">>
P_search == <<"s", "e", "a", "r", "c", "h", ".">>

\* endpoint.startswith(prefix)
StartsWith(endpoint, prefix) ==
    /\ Len(prefix) <= Len(endpoint)
    /\ SubSeq(endpoint, 1, Len(prefix)) = prefix

\* Variant: a general 'api.' entry is put in front of the specific ones.
endpoint_map_api_first(T) ==
    << <<P_api, get_rate_limit(T, "api", "default")>>,
       <<P_auth_login, get_rate_limit(T, "auth", "login")>>,
       <<P_auth_register, get_rate_limit(T, "auth", "register")>>,
       <<P_auth_forgot_password, get_rate_limit(T, "auth", "password_reset")>>,
       <<P_auth_reset_password, get_rate_limit(T, "auth", "password_reset")>>,
       <<P_api_v1, get_rate_limit(T, "api", "default")>>,
       <<P_api_public, get_rate_limit(T, "api", "public")>>,
       <<P_admin, get_rate_limit(T, "admin", None)>>,
       <<P_upload, get_rate_limit(T, "uploads", None)>>,
       <<P_search, get_rate_limit(T, "search", None)>> >>

\* endpoint_map, lines 86-105, in the order of the dict literal.
endpoint_map(T) ==
    << <<P_auth_login, get_rate_limit(T, "auth", "login")>>,
       <<P_auth_register, get_rate_limit(T, "auth", "register")>>,
       <<P_auth_forgot_password, get_rate_limit(T, "auth", "password_reset")>>,
       <<P_auth_reset_password, get_rate_limit(T, "auth", "password_reset")>>,
       <<P_api_v1, get_rate_limit(T, "api", "default")>>,
       <<P_api_public, get_rate_limit(T, "api", "public")>>,
       <<P_admin, get_rate_limit(T, "admin", None)>>,
       <<P_upload, get_rate_limit(T, "uploads", None)>>,
       <<P_search, get_rate_limit(T, "search", None)>> >>

\* default_limit, line 83.
default_limit == <<100, 60>>

\* lines 108-112: the limit of the first entry, in the order of iteration, whose
\* prefix the endpoint starts with, else the default.
RECURSIVE FirstMatch(_, _)
FirstMatch(endpoint, entries) ==
    IF entries = <<>> THEN Ok(default_limit)
    ELSE IF StartsWith(endpoint, Head(entries)[1]) THEN Head(entries)[2]
    ELSE FirstMatch(endpoint, Tail(entries))

\* get_rate_limit_for_endpoint, lines 71-112: building the map raises what a
\* get_rate_limit in it raises.
get_rate_limit_for_endpoint(T, endpoint) ==
    LET m == endpoint_map(T)
    IN  IF \E i \in 1..Len(m) : ~m[i][2].ok THEN KeyError
        ELSE FirstMatch(endpoint, m)

\* ---- history ----------------------------------------------------------------
\* The admissions of key k that are at most one window old at time t.
RECURSIVE Prune(_, _)
Prune(s, t) ==
    IF s = <<>> THEN s
    ELSE IF s[1][1] < t THEN Prune(Tail(s), t) ELSE s

PruneLog(l, t) == [k \in Keys |-> Prune(l[k], t - PerTicks(k))]

\* The number of admissions of key k recorded for the window expiring at e.
InWindow(l, k, e) == Cardinality({i \in 1..Len(l[k]) : l[k][i][2] = e})

NoRequest == [outcome |-> "none"]
NoRead == <<0, 0>>
NoCall == [fn |-> "none"]
NoRoute == [endpoint |-> <<>>]
NoResponse == [outcome |-> "none"]
NoToken == "None"

\* The state of the parts of the application no request has reached yet.
Clients == {"c1", "c2"}

InitApp ==
    /\ resp = NoResponse
    /\ session = [c \in Clients |-> NoToken]
    /\ csrf = NoCall
    /\ max_requests = 1
    /\ window = 1
    /\ requests = <<>>
    /\ rl = NoCall

\* What a request that compared at current_time against window w returns.
Admitted(k, sweep_time, current_time, w, d) ==
    [outcome |-> "admitted", key |-> k,
     sweep_time |-> sweep_time, current_time |-> current_time,
     had |-> Has(d, k), pre |-> IF Has(d, k) THEN d[k] ELSE <<0, 0>>,
     live |-> Has(d, k) /\ d[k] = w,
     expiry |-> w[1], count |-> w[2] + 1,
     before |-> InWindow(log, k, w[1]),
     x_limit |-> limit[k],
     x_remaining |-> Remaining(limit[k], w[2] + 1),
     x_reset |-> Reset(w[1]),
     retry_after |-> 0]

\* What a request that is refused returns: the RateLimitExceeded it raises.
\* prev is the <<time, retry_after>> of the request served just before, if that
\* one was refused for the same key in the same window.
Rejected(k, sweep_time, current_time, w, d) ==
    [outcome |-> "rejected", key |-> k,
     sweep_time |-> sweep_time, current_time |-> current_time,
     had |-> Has(d, k), pre |-> IF Has(d, k) THEN d[k] ELSE <<0, 0>>,
     live |-> Has(d, k) /\ d[k] = w,
     expiry |-> w[1], count |-> w[2],
     before |-> InWindow(log, k, w[1]),
     x_limit |-> 0,
     x_remaining |-> 0,
     x_reset |-> IntSec(current_time) + RetryAfter(w[1], current_time),
     retry_after |-> RetryAfter(w[1], current_time),
     prev |-> IF last.outcome = "rejected" /\ last.key = k /\ last.expiry = w[1]
              THEN <<last.current_time, last.retry_after>>
              ELSE <<>>]

\* ---- initial state ------------------------------------------------------------
\* No request has been served.  The route of key A has any limit and window
\* within the bounds, the route of key B has limit 1 and a window of 1 second.
Init ==
    /\ now = 0
    /\ limit \in [Keys -> 1..MaxLimit]
    /\ per \in [Keys -> 1..MaxPer]
    /\ limit["B"] = 1
    /\ per["B"] = 1
    /\ rate_limits = <<>>
    /\ last = NoRequest
    /\ log = [k \in Keys |-> <<>>]
    /\ pc = [t \in Threads |-> "idle"]
    /\ tkey = [t \in Threads |-> "A"]
    /\ expired_keys = [t \in Threads |-> {}]
    /\ tread = [t \in Threads |-> NoRead]
    /\ RATE_LIMITS = ConfigTable
    /\ APP_RATE_LIMITS = AppTable
    /\ cfg = NoCall
    /\ testing = FALSE
    /\ deco = [k \in Keys |-> NoRoute]
    /\ InitApp

\* ---- the clock ------------------------------------------------------------------
Tick ==
    /\ now < MaxTime
    /\ now' = now + 1
    /\ log' = PruneLog(log, now + 1)
    /\ UNCHANGED <<limit, per, cfgvars, rate_limits, last, pc, tkey, expired_keys, tread>>

\* ---- one request, handled without interleaving ------------------------------------
\* decorated_function, lines 85-131, with TESTING unset and a handler f that
\* returns.  The sweep reads the clock at sweep_time, the check reads it again
\* at current_time >= sweep_time.
rate_limited(k, sweep_time, current_time) ==
    LET h == Handle(rate_limits, k, sweep_time, current_time)
    IN  /\ now' = current_time
        /\ rate_limits' = h.dict
        /\ IF h.admitted
           THEN /\ last' = Admitted(k, sweep_time, current_time, h.w, rate_limits)
                /\ log' = PruneLog([log EXCEPT ![k] = Append(@, <<current_time, h.w[1]>>)],
                                   current_time)
           ELSE /\ last' = Rejected(k, sweep_time, current_time, h.w, rate_limits)
                /\ log' = PruneLog(log, current_time)
        /\ UNCHANGED <<limit, per>>

Request ==
    /\ \A t \in Threads : pc[t] = "idle"
    /\ \E k \in Keys, d \in 0..MaxDrift :
          /\ now + d <= MaxTime
          /\ rate_limited(k, now, now + d)
    /\ UNCHANGED <<thvars, cfgvars>>

Next == Tick \/ Request

Spec == Init /\ [][Next]_vars

\* ---- requests handled by interleaved threads ----------------------------------------
\* A request arrives for key k and a thread enters decorated_function.
Start(t) ==
    /\ pc[t] = "idle"
    /\ \E k \in Keys :
          /\ Len(log[k]) < MaxLogConc
          /\ tkey' = [tkey EXCEPT ![t] = k]
    /\ pc' = [pc EXCEPT ![t] = "scan"]
    /\ UNCHANGED <<now, limit, per, cfgvars, rate_limits, last, log, expired_keys, tread>>

\* clear_expired_limits, lines 54-58: read the clock, collect the expired keys.
Scan(t) ==
    /\ pc[t] = "scan"
    /\ expired_keys' = [expired_keys EXCEPT ![t] = ExpiredKeys(rate_limits, now)]
    /\ pc' = [pc EXCEPT ![t] = "pop"]
    /\ UNCHANGED <<now, limit, per, cfgvars, rate_limits, last, log, tkey, tread>>

\* clear_expired_limits, lines 59-60: pop the keys collected by the scan.
Pop(t) ==
    /\ pc[t] = "pop"
    /\ rate_limits' = PopAll(rate_limits, expired_keys[t])
    /\ expired_keys' = [expired_keys EXCEPT ![t] = {}]
    /\ pc' = [pc EXCEPT ![t] = "read"]
    /\ UNCHANGED <<now, limit, per, cfgvars, last, log, tkey, tread>>

\* lines 94-103: read the clock and the entry into the locals expiry, count.
Read(t) ==
    /\ pc[t] = "read"
    /\ LET w == Window(rate_limits, tkey[t], now)
       IN  tread' = [tread EXCEPT ![t] = w]
    /\ pc' = [pc EXCEPT ![t] = "check"]
    /\ UNCHANGED <<now, limit, per, cfgvars, rate_limits, last, log, tkey, expired_keys>>

\* lines 105-131: compare the local count, then raise or store and call f.
Check(t) ==
    /\ pc[t] = "check"
    /\ LET k == tkey[t]
           w == tread[t]
       IN  IF Exceeded(w[2], limit[k])
           THEN UNCHANGED log
           ELSE log' = [log EXCEPT ![k] = Append(@, <<now, w[1]>>)]
    /\ rate_limits' = AfterCheck(rate_limits, tkey[t], tread[t], limit[tkey[t]])
    /\ pc' = [pc EXCEPT ![t] = "idle"]
    /\ tread' = [tread EXCEPT ![t] = NoRead]
    /\ tkey' = [tkey EXCEPT ![t] = "A"]
    /\ UNCHANGED <<now, limit, per, cfgvars, last, expired_keys>>

TickConc ==
    /\ now < MaxTimeConc
    /\ Tick

NextConc ==
    \/ TickConc
    \/ \E t \in Threads : Start(t)
    \/ \E t \in Threads : Scan(t)
    \/ \E t \in Threads : Pop(t)
    \/ \E t \in Threads : Read(t)
    \/ \E t \in Threads : Check(t)

\* Every route has a window of one second.
InitConc ==
    /\ Init
    /\ \A k \in Keys : per[k] = 1

SpecConc == InitConc /\ [][NextConc]_vars

\* ---- a route decorated with a limit or a window that is not positive -----------------
\* rate_limited(limit, per) takes its arguments as they come (lines 62-81 hold no
\* check of them): the route of key A has a limit of 0 or a window of 0 seconds.
InitInvalid ==
    /\ now = 0
    /\ limit \in [Keys -> 0..MaxLimit]
    /\ per \in [Keys -> 0..MaxPer]
    /\ limit["A"] = 0 \/ per["A"] = 0
    /\ limit["B"] = 1
    /\ per["B"] = 1
    /\ rate_limits = <<>>
    /\ last = NoRequest
    /\ log = [k \in Keys |-> <<>>]
    /\ pc = [t \in Threads |-> "idle"]
    /\ tkey = [t \in Threads |-> "A"]
    /\ expired_keys = [t \in Threads |-> {}]
    /\ tread = [t \in Threads |-> NoRead]
    /\ RATE_LIMITS = ConfigTable
    /\ APP_RATE_LIMITS = AppTable
    /\ cfg = NoCall
    /\ testing = FALSE
    /\ deco = [k \in Keys |-> NoRoute]
    /\ InitApp

RequestInvalid ==
    /\ \A k \in Keys : Len(log[k]) < MaxLogInvalid
    /\ Request

NextInvalid == Tick \/ RequestInvalid

SpecInvalid == InitInvalid /\ [][NextInvalid]_vars

\* ---- the key of a request --------------------------------------------------------------
Unknown == <<"u", "n", "k", "n", "o", "w", "n">>
UserPrefix == <<"u", "s", "e", "r", ":">>
Colon == <<":">>

\* Variant: the user of the request is ignored.
get_ratelimit_key_by_address(request) ==
    LET key == IF request.remote_addr = <<>> THEN Unknown ELSE request.remote_addr
        endpoint == IF request.endpoint = <<>> THEN Unknown ELSE request.endpoint
    IN  key \o Colon \o endpoint

\* get_ratelimit_key, lines 35-50.  A request is what the function reads of it:
\* remote_addr and endpoint (<<>> when None or empty, which `or` treats alike)
\* and user, whose kind is "absent" (no attribute), "falsy", "no_uid" (truthy,
\* without a uid attribute) or "uid".
get_ratelimit_key(request) ==
    LET address == IF request.remote_addr = <<>> THEN Unknown ELSE request.remote_addr
        key == IF request.user.kind = "uid"
               THEN UserPrefix \o request.user.uid
               ELSE address
        endpoint == IF request.endpoint = <<>> THEN Unknown ELSE request.endpoint
    IN  key \o Colon \o endpoint

\* ---- the arguments the lookups are called with -------------------------------------------
Categories == {"public", "auth", "api", "sensitive", "uploads", "admin", "search",
               "strict", "nonexistent"}
Subcategories == {None, "login", "register", "password_reset", "default", "public",
                  "authenticated", "bogus"}

E_auth_login_history == <<"a", "u", "t", "h", ".", "l", "o", "g", "i", "n", "_", "h", "i", "s", "t", "o", "r", "y">>
E_auth_logout == <<"a", "u", "t", "h", ".", "l", "o", "g", "o", "u", "t">>
E_auth_register_seller == <<"a", "u", "t", "h", ".", "r", "e", "g", "i", "s", "t", "e", "r", "_", "s", "e", "l", "l", "e", "r">>
E_api_v1_products == <<"a", "p", "i", ".", "v", "1", ".", "p", "r", "o", "d", "u", "c", "t", "s">>
E_api_public_hello == <<"a", "p", "i", ".", "p", "u", "b", "l", "i", "c", ".", "h", "e", "l", "l", "o">>
E_api_v2_items == <<"a", "p", "i", ".", "v", "2", ".", "i", "t", "e", "m", "s">>
E_api_search == <<"a", "p", "i", ".", "s", "e", "a", "r", "c", "h">>
E_api_public_hello_view == <<"a", "p", "i", ".", "p", "u", "b", "l", "i", "c", "_", "h", "e", "l", "l", "o">>
E_admin_stats == <<"a", "d", "m", "i", "n", ".", "s", "t", "a", "t", "s">>
E_admin == <<"a", "d", "m", "i", "n">>
E_upload_image == <<"u", "p", "l", "o", "a", "d", ".", "i", "m", "a", "g", "e">>
E_search_query == <<"s", "e", "a", "r", "c", "h", ".", "q", "u", "e", "r", "y">>
E_main_index == <<"m", "a", "i", "n", ".", "i", "n", "d", "e", "x">>

Endpoints ==
    {P_auth_login, P_auth_register, P_auth_forgot_password, P_auth_reset_password,
     P_api_v1, P_api_public, P_api, P_admin, P_upload, P_search,
     E_auth_login_history, E_auth_logout, E_auth_register_seller, E_api_v1_products,
     E_api_public_hello, E_api_v2_items, E_api_search, E_api_public_hello_view,
     E_admin_stats, E_admin, E_upload_image, E_search_query, E_main_index, Unknown}

Addresses == {<<>>, <<"1", "0", ".", "0", ".", "0", ".", "1">>, <<"1", "0", ".", "0", ".", "0", ".", "2">>}
Uids == {<<"u", "1">>, <<"u", "2">>}
Users == {[kind |-> k, uid |-> <<>>] : k \in {"absent", "falsy", "no_uid"}}
         \cup {[kind |-> "uid", uid |-> u] : u \in Uids}
Requests == [remote_addr : Addresses, user : Users,
             endpoint : {<<>>, E_api_search, E_search_query, E_api_v1_products}]

\* ---- calls of the lookups, between the requests of the limiter ---------------------------
limvars == <<now, limit, per, rate_limits, last, log, thvars>>

\* Variant: the lookup takes the pair out of the table it reads.
Call_get_rate_limit_popping ==
    \E category \in Categories, subcategory \in Subcategories :
        /\ cfg' = [fn |-> "get_rate_limit",
                   args |-> [category |-> category, subcategory |-> subcategory],
                   result |-> get_rate_limit(RATE_LIMITS, category, subcategory)]
        /\ RATE_LIMITS' =
              IF category \in DOMAIN RATE_LIMITS /\ RATE_LIMITS[category].nested
                 /\ subcategory \in DOMAIN RATE_LIMITS[category].sub
              THEN [RATE_LIMITS EXCEPT ![category].sub =
                       [x \in (DOMAIN @) \ {subcategory} |-> @[x]]]
              ELSE RATE_LIMITS
        /\ UNCHANGED <<APP_RATE_LIMITS, limvars, appvars>>

\* config.rate_limits.get_rate_limit(category, subcategory)
Call_get_rate_limit ==
    \E category \in Categories, subcategory \in Subcategories :
        /\ cfg' = [fn |-> "get_rate_limit",
                   args |-> [category |-> category, subcategory |-> subcategory],
                   result |-> get_rate_limit(RATE_LIMITS, category, subcategory)]
        /\ UNCHANGED <<RATE_LIMITS, APP_RATE_LIMITS, limvars, appvars>>

\* config.rate_limits.get_rate_limit_for_endpoint(endpoint)
Call_get_rate_limit_for_endpoint ==
    \E endpoint \in Endpoints :
        /\ cfg' = [fn |-> "get_rate_limit_for_endpoint",
                   args |-> [endpoint |-> endpoint],
                   result |-> get_rate_limit_for_endpoint(RATE_LIMITS, endpoint)]
        /\ UNCHANGED <<RATE_LIMITS, APP_RATE_LIMITS, limvars, appvars>>

\* app.utils.rate_limiter.get_rate_limit(category)
Call_app_get_rate_limit ==
    \E category \in Categories :
        /\ cfg' = [fn |-> "app_get_rate_limit",
                   args |-> [app_category |-> category],
                   result |-> app_get_rate_limit(APP_RATE_LIMITS, category)]
        /\ UNCHANGED <<RATE_LIMITS, APP_RATE_LIMITS, limvars, appvars>>

\* app.utils.rate_limiter.get_ratelimit_key() on the current request
Call_get_ratelimit_key ==
    \E request \in Requests :
        /\ cfg' = [fn |-> "get_ratelimit_key",
                   args |-> [request |-> request],
                   result |-> get_ratelimit_key(request)]
        /\ UNCHANGED <<RATE_LIMITS, APP_RATE_LIMITS, limvars, appvars>>

InitCfg ==
    /\ Init
    /\ \A k \in Keys : limit[k] = 1 /\ per[k] = 1

TickCfg ==
    /\ now < MaxTimeCfg
    /\ Tick

RequestCfg ==
    /\ \E k \in {"A"}, d \in 0..MaxDrift :
          /\ now + d <= MaxTimeCfg
          /\ rate_limited(k, now, now + d)
    /\ UNCHANGED <<thvars, cfgvars>>

\* ---- from a refusal to the response ---------------------------------------------------
\* The keyword arguments werkzeug's TooManyRequests.__init__ takes.
TooManyRequestsKwargs == {"description", "response", "retry_after"}

\* The keyword arguments RateLimitExceeded.__init__ passes on to it (line 33).
SuperInitKwargs == {"description", "response", "headers"}

\* raise RateLimitExceeded(retry_after=retry_after), lines 108 and 20-33: the
\* exception that leaves decorated_function.  A keyword argument the parent
\* class does not take makes the constructor itself raise TypeError.
Raised(retry_after) ==
    IF SuperInitKwargs \subseteq TooManyRequestsKwargs
    THEN [class |-> "RateLimitExceeded", code |-> 429, retry_after |-> retry_after]
    ELSE [class |-> "TypeError", code |-> 0, retry_after |-> 0]

\* The classes of an exception, most specific first.
Mro(class) ==
    CASE class = "RateLimitExceeded" ->
            <<"RateLimitExceeded", "TooManyRequests", "HTTPException", "Exception">>
      [] class \in {"MethodNotAllowed", "InternalServerError"} ->
            <<class, "HTTPException", "Exception">>
      [] class \in {"FirebaseAuthError", "FirebaseNotFoundError", "FirebaseValidationError"} ->
            <<class, "FirebaseServiceError", "Exception">>
      [] class = "UserNotFoundError" ->
            <<class, "NotFoundError", "FirebaseError", "Exception">>
      [] class \in {"EmailAlreadyExistsError", "PhoneNumberAlreadyExistsError",
                    "UidAlreadyExistsError"} ->
            <<class, "AlreadyExistsError", "FirebaseError", "Exception">>
      [] class \in {"InvalidIdTokenError", "UserDisabledError"} ->
            <<class, "InvalidArgumentError", "FirebaseError", "Exception">>
      [] class \in {"ExpiredIdTokenError", "RevokedIdTokenError"} ->
            <<class, "InvalidIdTokenError", "InvalidArgumentError", "FirebaseError",
              "Exception">>
      [] class = "Exception" -> <<"Exception">>
      [] OTHER -> <<class, "Exception">>

\* The handlers register_error_handlers registers for a status code ...
CodeHandlers(code) ==
    CASE code = 429 -> [c \in {"TooManyRequests"} |-> "ratelimit_error"]
      [] code = 500 -> [c \in {"InternalServerError"} |-> "internal_server_error"]
      [] OTHER -> <<>>

\* ... and for an exception class (lines 177, 192, 207, 222 and 238).
ClassHandlers ==
    [c \in {"FirebaseAuthError", "FirebaseNotFoundError", "FirebaseValidationError",
            "FirebaseServiceError", "Exception"} |->
        CASE c = "FirebaseAuthError" -> "handle_firebase_auth_error"
          [] c = "FirebaseNotFoundError" -> "handle_firebase_not_found_error"
          [] c = "FirebaseValidationError" -> "handle_firebase_validation_error"
          [] c = "FirebaseServiceError" -> "handle_firebase_service_error"
          [] c = "Exception" -> "handle_exception"]

RECURSIVE FirstHandler(_, _)
FirstHandler(classes, handlers) ==
    IF classes = <<>> THEN "none"
    ELSE IF Head(classes) \in DOMAIN handlers THEN handlers[Head(classes)]
    ELSE FirstHandler(Tail(classes), handlers)

\* Flask's choice of the handler: those of the exception's code before those
\* registered for a class, each searched along the classes of the exception.
FindHandler(exc) ==
    LET byCode == FirstHandler(Mro(exc.class), CodeHandlers(exc.code))
    IN  IF byCode # "none" THEN byCode
        ELSE FirstHandler(Mro(exc.class), ClassHandlers)

\* ratelimit_error (lines 128-154) and handle_exception (lines 238-254).
ErrorResponse(exc) ==
    IF FindHandler(exc) = "ratelimit_error"
    THEN [handler |-> "ratelimit_error", status |-> 429,
          retry_after_header |-> IF exc.retry_after # 0 THEN exc.retry_after ELSE -1,
          type |-> "rate_limit_exceeded",
          retry_after |-> exc.retry_after]
    ELSE [handler |-> "handle_exception", status |-> 500,
          retry_after_header |-> -1,
          type |-> "internal_server_error",
          retry_after |-> -1]

\* ---- failures of the collaborators -------------------------------------------------------
\* The exception classes the module firebase_admin.auth has among the names the
\* except clauses of handle_firebase_errors look up in it.
AuthAttributes ==
    {"UserNotFoundError", "EmailAlreadyExistsError", "PhoneNumberAlreadyExistsError",
     "UidAlreadyExistsError", "InvalidIdTokenError", "ExpiredIdTokenError",
     "RevokedIdTokenError", "UserDisabledError"}

Exc(class, code) == [class |-> class, code |-> code, retry_after |-> 0]

Clause(attr, class, raises, code) ==
    [attr |-> attr, class |-> class, raises |-> Exc(raises, code)]

\* The except clauses of the wrapper, lines 61-105, in their order: whether the
\* class is an attribute of auth, its name, and what the clause raises.
ExceptClauses ==
    << Clause(TRUE, "UserNotFoundError", "FirebaseNotFoundError", 404),
       Clause(TRUE, "EmailAlreadyExistsError", "FirebaseValidationError", 400),
       Clause(TRUE, "PhoneNumberAlreadyExistsError", "FirebaseValidationError", 400),
       Clause(TRUE, "UidAlreadyExistsError", "FirebaseValidationError", 400),
       Clause(TRUE, "InvalidEmailError", "FirebaseValidationError", 400),
       Clause(TRUE, "WeakPasswordError", "FirebaseValidationError", 400),
       Clause(TRUE, "InvalidPasswordError", "FirebaseValidationError", 400),
       Clause(TRUE, "InvalidIdTokenError", "FirebaseAuthError", 401),
       Clause(TRUE, "ExpiredIdTokenError", "FirebaseAuthError", 401),
       Clause(TRUE, "RevokedIdTokenError", "FirebaseAuthError", 401),
       Clause(TRUE, "UserDisabledError", "FirebaseAuthError", 403),
       Clause(TRUE, "InvalidCredentialError", "FirebaseAuthError", 401),
       Clause(FALSE, "ValueError", "FirebaseValidationError", 400),
       Clause(FALSE, "FirebaseError", "FirebaseServiceError", 500),
       Clause(FALSE, "Exception", "FirebaseServiceError", 500) >>

IsA(class, base) == \E i \in 1..Len(Mro(class)) : Mro(class)[i] = base

\* The status code of an exception as it is raised: that of its class for an
\* HTTPException, none for another.
RaisedCode(class) ==
    CASE class = "MethodNotAllowed" -> 405
      [] class = "InternalServerError" -> 500
      [] OTHER -> 0

\* Python tries the clauses in order and evaluates the class of a clause when it
\* comes to it: a name auth has not raises AttributeError out of the wrapper.
RECURSIVE Caught(_, _)
Caught(class, clauses) ==
    IF clauses = <<>> THEN Exc(class, RaisedCode(class))
    ELSE IF Head(clauses).attr /\ Head(clauses).class \notin AuthAttributes
         THEN Exc("AttributeError", 0)
    ELSE IF IsA(class, Head(clauses).class) THEN Head(clauses).raises
    ELSE Caught(class, Tail(clauses))

\* handle_firebase_errors, lines 47-106: the exception that leaves the wrapper
\* when the function it wraps raises one of the given class.
handle_firebase_errors(class) == Caught(class, ExceptClauses)

\* The handlers of error_handlers.py lines 156-254 ...
HandlerType(handler) ==
    CASE handler = "handle_firebase_auth_error" -> "authentication_error"
      [] handler = "handle_firebase_not_found_error" -> "not_found"
      [] handler = "handle_firebase_validation_error" -> "validation_error"
      [] handler = "handle_firebase_service_error" -> "service_error"
      [] handler = "ratelimit_error" -> "rate_limit_exceeded"
      [] OTHER -> "internal_server_error"

\* ... and the response of the one Flask chooses: its status, the type in its
\* body and where its message comes from.
ErrorResponseIn(exc, debug) ==
    LET handler == FindHandler(exc)
    IN  [handler |-> handler,
         type |-> HandlerType(handler),
         status |-> CASE handler \in {"handle_firebase_auth_error",
                                      "handle_firebase_not_found_error",
                                      "handle_firebase_validation_error",
                                      "handle_firebase_service_error"} -> exc.code
                      [] handler = "ratelimit_error" -> 429
                      [] OTHER -> 500,
         message |-> CASE handler = "handle_exception" -> "An unexpected error occurred."
                       [] handler = "internal_server_error" ->
                             IF debug THEN "str(error)"
                             ELSE "An internal server error occurred."
                       [] handler = "ratelimit_error" -> "Too many requests."
                       [] OTHER -> "error.message"]

\* The exceptions a function of the application raises.
RaisedInside ==
    {"UserNotFoundError", "EmailAlreadyExistsError", "PhoneNumberAlreadyExistsError",
     "UidAlreadyExistsError", "InvalidIdTokenError", "ExpiredIdTokenError",
     "RevokedIdTokenError", "UserDisabledError", "ValueError", "FirebaseError",
     "KeyError", "FirebaseNotFoundError", "MethodNotAllowed", "InternalServerError"}

\* A function raises an exception, inside handle_firebase_errors or not, and the
\* error handlers answer what comes out, with DEBUG set or unset.
Call_handle_firebase_errors ==
    \E class \in RaisedInside, wrapped \in BOOLEAN, debug \in BOOLEAN :
        LET error == IF wrapped THEN handle_firebase_errors(class)
                     ELSE Exc(class, RaisedCode(class))
        IN  /\ cfg' = [fn |-> "handle_firebase_errors",
                       args |-> [class |-> class, wrapped |-> wrapped, debug |-> debug],
                       result |-> [error |-> error,
                                   response |-> ErrorResponseIn(error, debug)]]
            /\ UNCHANGED <<RATE_LIMITS, APP_RATE_LIMITS, limvars, appvars>>

\* The lookups, the key and the failures, between the requests of the limiter.
NextCfg ==
    \/ TickCfg
    \/ RequestCfg
    \/ Call_get_rate_limit
    \/ Call_get_rate_limit_for_endpoint
    \/ Call_app_get_rate_limit
    \/ Call_get_ratelimit_key
    \/ Call_handle_firebase_errors

SpecCfg == InitCfg /\ [][NextCfg]_vars

\* ---- routes and their decorators ----------------------------------------------------------
\* An optional number of a decorator is <<>> when it is None, else <<n>>.
E_api_create_product == <<"a", "p", "i", ".", "c", "r", "e", "a", "t", "e", "_", "p", "r", "o", "d", "u", "c", "t">>
E_api_admin_stats == <<"a", "p", "i", ".", "a", "d", "m", "i", "n", "_", "s", "t", "a", "t", "s">>

\* routes.py lines 21-23, 43-48, 63-65 and 90-94: the decorators of a route from
\* the outermost to the innermost, and the arguments of rate_limit.
public_hello ==
    [endpoint |-> E_api_public_hello_view, decorators |-> <<"rate_limit">>, role |-> None,
     limit |-> <<>>, per |-> <<>>, category |-> "public"]
create_product ==
    [endpoint |-> E_api_create_product,
     decorators |-> <<"require_auth", "require_role", "rate_limit">>, role |-> "seller",
     limit |-> <<10>>, per |-> <<60>>, category |-> None]
search ==
    [endpoint |-> E_api_search, decorators |-> <<"rate_limit">>, role |-> None,
     limit |-> <<>>, per |-> <<>>, category |-> "search"]
admin_stats ==
    [endpoint |-> E_api_admin_stats,
     decorators |-> <<"require_auth", "require_role", "rate_limit">>, role |-> "admin",
     limit |-> <<>>, per |-> <<>>, category |-> "admin"]

\* Other uses of the decorators: one number given, none given and no category,
\* a category no table has, small explicit numbers.
OtherRoutes ==
    {[endpoint |-> E_api_search, decorators |-> <<"rate_limit">>, role |-> None,
      limit |-> <<1>>, per |-> <<>>, category |-> "sensitive"],
     [endpoint |-> E_search_query, decorators |-> <<"rate_limit">>, role |-> None,
      limit |-> <<>>, per |-> <<1>>, category |-> None],
     [endpoint |-> E_api_search, decorators |-> <<"rate_limit">>, role |-> None,
      limit |-> <<>>, per |-> <<>>, category |-> None],
     [endpoint |-> E_main_index, decorators |-> <<"rate_limit">>, role |-> None,
      limit |-> <<>>, per |-> <<>>, category |-> "nonexistent"],
     [endpoint |-> E_main_index, decorators |-> <<"rate_limit">>, role |-> None,
      limit |-> <<2>>, per |-> <<1>>, category |-> "strict"],
     [endpoint |-> E_main_index, decorators |-> <<"require_auth", "rate_limit">>,
      role |-> None, limit |-> <<1>>, per |-> <<1>>, category |-> None]}

Routes == {public_hello, create_product, search, admin_stats} \cup OtherRoutes

\* The route of key B in every behaviour: rate_limit(limit=1, per=1).
PlainRoute ==
    [endpoint |-> E_main_index, decorators |-> <<"rate_limit">>, role |-> None,
     limit |-> <<1>>, per |-> <<1>>, category |-> None]

\* request.user as require_auth and require_role read it: absent, falsy, or a
\* user with roles.
AuthUsers ==
    {[kind |-> k, roles |-> {}] : k \in {"absent", "falsy"}}
    \cup {[kind |-> "user", roles |-> r] : r \in {{}, {"seller"}, {"admin"}}}

\* Variant: explicit numbers are dropped when the configuration is looked up.
rate_limit_config_overriding(route) ==
    IF route.limit = <<>> \/ route.per = <<>>
    THEN LET config_limit ==
                 IF route.category # None
                 THEN app_get_rate_limit(APP_RATE_LIMITS, route.category)
                 ELSE get_rate_limit_for_endpoint(RATE_LIMITS, route.endpoint)
         IN  IF config_limit.ok
             THEN [ok |-> TRUE,
                   lookup |-> IF route.category # None THEN "get_app_rate_limit"
                              ELSE "get_rate_limit_for_endpoint",
                   limit |-> config_limit.v[1],
                   per |-> config_limit.v[2]]
             ELSE [ok |-> FALSE, lookup |-> "raised", limit |-> 0, per |-> 0]
    ELSE [ok |-> TRUE, lookup |-> "none", limit |-> route.limit[1], per |-> route.per[1]]

\* decorators.py lines 47-64: the _limit and _per that rate_limit passes to
\* rate_limited, and the lookup it made for them.
rate_limit_config(route) ==
    IF route.limit = <<>> \/ route.per = <<>>
    THEN LET config_limit ==
                 IF route.category # None
                 THEN app_get_rate_limit(APP_RATE_LIMITS, route.category)
                 ELSE get_rate_limit_for_endpoint(RATE_LIMITS, route.endpoint)
         IN  IF config_limit.ok
             THEN [ok |-> TRUE,
                   lookup |-> IF route.category # None THEN "get_app_rate_limit"
                              ELSE "get_rate_limit_for_endpoint",
                   limit |-> IF route.limit # <<>> THEN route.limit[1] ELSE config_limit.v[1],
                   per |-> IF route.per # <<>> THEN route.per[1] ELSE config_limit.v[2]]
             ELSE [ok |-> FALSE, lookup |-> "raised", limit |-> 0, per |-> 0]
    ELSE [ok |-> TRUE, lookup |-> "none", limit |-> route.limit[1], per |-> route.per[1]]

\* Variant: the flag is not looked at.
BypassedNever(flag) == FALSE

\* `if current_app.config.get('TESTING')`, rate_limiter.py line 87 and
\* decorators.py line 44
Bypassed(flag) == flag

\* Variant: any request counts as authenticated.
AuthenticatedAlways(user) == TRUE

\* `hasattr(request, 'user') and request.user`, lines 82 and 104
Authenticated(user) == user.kind = "user"

\* require_auth (lines 78-92) and require_role (lines 95-130): the status the
\* decorator answers with itself, 0 when it calls the function it wraps.
Guard(decorator, route, user) ==
    CASE decorator = "require_auth" -> IF Authenticated(user) THEN 0 ELSE 401
      [] decorator = "require_role" ->
            IF ~Authenticated(user) THEN 401
            ELSE IF route.role \notin user.roles THEN 403
            ELSE 0
      [] OTHER -> 0

\* The status of the first decorator of a sequence that answers itself, else 0.
RECURSIVE FirstRefusal(_, _, _)
FirstRefusal(decorators, route, user) ==
    IF decorators = <<>> THEN 0
    ELSE IF Guard(Head(decorators), route, user) # 0
         THEN Guard(Head(decorators), route, user)
         ELSE FirstRefusal(Tail(decorators), route, user)

\* The place of rate_limit among the decorators of a route.
LimiterAt(route) ==
    CHOOSE i \in 1..Len(route.decorators) : route.decorators[i] = "rate_limit"

Outside(route) == SubSeq(route.decorators, 1, LimiterAt(route) - 1)
Inside(route) == SubSeq(route.decorators, LimiterAt(route) + 1, Len(route.decorators))

\* Variant: the slot is given back when the handler raises.
AfterHandlerRefunding(d, before, raises) == IF raises THEN before ELSE d

\* response = f(*args, **kwargs), line 115: the dict after f has returned or
\* raised, d being the dict when f is called and before the dict when the
\* request came in.
AfterHandler(d, before, raises) == d

\* What the client gets: a refusal of the limiter through the error handlers,
\* an exception of the handler through handle_exception, else the response of f.
Answer(outcome, retry_after) ==
    CASE outcome = "refused" -> ErrorResponse(Raised(retry_after)).status
      [] outcome = "raised" -> 500
      [] outcome = "returned" -> 200
      [] outcome = "unauthorized" -> 401
      [] outcome = "forbidden" -> 403

Response(outcome, k, user, raises, consulted, config, retry_after) ==
    [outcome |-> outcome, key |-> k, user |-> user, raises |-> raises,
     status |-> Answer(outcome, retry_after),
     handler |-> outcome \in {"returned", "raised"},
     limiter |-> consulted,
     config |-> config,
     before |-> rate_limits]

NoConfig == [ok |-> TRUE, lookup |-> "none", limit |-> 0, per |-> 0]

StatusOutcome(status) == IF status = 401 THEN "unauthorized" ELSE "forbidden"

\* One request to the route of key k by a client with the given request.user,
\* to a handler that returns or raises: the decorators from the outermost one.
RouteRequest(k, user, raises, d) ==
    LET route == deco[k]
        outer == FirstRefusal(Outside(route), route, user)
        inner == FirstRefusal(Inside(route), route, user)
        config == rate_limit_config(route)
        h == Handle(rate_limits, k, now, now + d)
    IN  IF outer # 0
        THEN /\ resp' = Response(StatusOutcome(outer), k, user, raises, FALSE, NoConfig, 0)
             /\ UNCHANGED <<now, limit, per, rate_limits, last, log>>
        ELSE IF Bypassed(testing)
        THEN /\ resp' = Response(IF inner # 0 THEN StatusOutcome(inner)
                                 ELSE IF raises THEN "raised" ELSE "returned",
                                 k, user, raises, FALSE, NoConfig, 0)
             /\ UNCHANGED <<now, limit, per, rate_limits, last, log>>
        ELSE /\ config.ok
             /\ limit[k] = config.limit
             /\ per[k] = config.per
             /\ now' = now + d
             /\ UNCHANGED <<limit, per>>
             /\ IF h.admitted
                THEN /\ last' = Admitted(k, now, now + d, h.w, rate_limits)
                     /\ log' = PruneLog([log EXCEPT ![k] = Append(@, <<now + d, h.w[1]>>)],
                                        now + d)
                     /\ rate_limits' = IF inner # 0 THEN h.dict
                                       ELSE AfterHandler(h.dict, rate_limits, raises)
                     /\ resp' = Response(IF inner # 0 THEN StatusOutcome(inner)
                                         ELSE IF raises THEN "raised" ELSE "returned",
                                         k, user, raises, TRUE, config, 0)
                ELSE /\ last' = Rejected(k, now, now + d, h.w, rate_limits)
                     /\ log' = PruneLog(log, now + d)
                     /\ rate_limits' = h.dict
                     /\ resp' = Response("refused", k, user, raises, TRUE, config,
                                         RetryAfter(h.w[1], now + d))

RequestRoute ==
    /\ \E k \in Keys, user \in AuthUsers, raises \in BOOLEAN, d \in 0..MaxDriftRoute :
          /\ now + d <= MaxTimeRoute
          /\ Len(log[k]) < MaxLogRoute
          /\ RouteRequest(k, user, raises, d)
    /\ UNCHANGED <<thvars, RATE_LIMITS, APP_RATE_LIMITS, cfg, testing, deco,
                   session, csrf, max_requests, window, requests, rl>>

TickRoute ==
    /\ now < MaxTimeRoute
    /\ Tick

\* The application runs with TESTING set or unset; the route of key A is any of
\* the routes, and the limiter gets the numbers its decorator resolves.
InitRoute ==
    /\ now = 0
    /\ testing \in BOOLEAN
    /\ deco \in [Keys -> Routes \cup {PlainRoute}]
    /\ deco["B"] = PlainRoute
    /\ deco["A"] \in Routes
    /\ RATE_LIMITS = ConfigTable
    /\ APP_RATE_LIMITS = AppTable
    /\ limit = [k \in Keys |-> rate_limit_config(deco[k]).limit]
    /\ per = [k \in Keys |-> rate_limit_config(deco[k]).per]
    /\ rate_limits = <<>>
    /\ last = NoRequest
    /\ log = [k \in Keys |-> <<>>]
    /\ pc = [t \in Threads |-> "idle"]
    /\ tkey = [t \in Threads |-> "A"]
    /\ expired_keys = [t \in Threads |-> {}]
    /\ tread = [t \in Threads |-> NoRead]
    /\ cfg = NoCall
    /\ InitApp

NextRoute == TickRoute \/ RequestRoute

SpecRoute == InitRoute /\ [][NextRoute]_vars

\* ---- security.py: the CSRF token ---------------------------------------------------------
\* secrets.token_hex(16) returns one of these.
Tokens == {"a1", "b2", "c3"}

\* request.form.get('_csrf_token'): a token, the empty string, or None.
FormTokens == Tokens \cup {"", NoToken}

Methods == {"GET", "POST", "PUT"}

\* Variant: the token is read and left in the session.
PoppedKept(token) == token

\* session.pop('_csrf_token', None), line 17: what the session holds afterwards.
Popped(token) == NoToken

\* `not token or token != request.form.get('_csrf_token')`, line 18
Refused(token, form) == token = NoToken \/ token = "" \/ token # form

\* generate_csrf_token, lines 8-11, for the session of client c.
generate_csrf_token(c) ==
    \E fresh \in Tokens :
        /\ session' = [session EXCEPT ![c] = IF @ = NoToken THEN fresh ELSE @]
        /\ csrf' = [fn |-> "generate_csrf_token", client |-> c, before |-> session[c],
                    result |-> session'[c]]

\* A view under csrf_protect, lines 13-21, requested by client c.  replay tells
\* that the call before was a POST of the same client that was let through
\* with the same form token.
csrf_protect(c, method, form) ==
    /\ session' = [session EXCEPT ![c] = IF method = "POST" THEN Popped(@) ELSE @]
    /\ csrf' = [fn |-> "csrf_protect", client |-> c, method |-> method, form |-> form,
                before |-> session[c],
                status |-> IF method = "POST" /\ Refused(session[c], form)
                           THEN 403 ELSE 200,
                replay |-> /\ csrf.fn = "csrf_protect"
                           /\ csrf.client = c
                           /\ csrf.method = "POST"
                           /\ csrf.status = 200
                           /\ csrf.form = form
                           /\ method = "POST"]

secvars == <<testing, deco, resp, max_requests, window, requests, rl>>

Generate ==
    /\ \E c \in Clients : generate_csrf_token(c)
    /\ UNCHANGED <<limvars, RATE_LIMITS, APP_RATE_LIMITS, cfg, secvars>>

View ==
    /\ \E c \in Clients, method \in Methods, form \in FormTokens :
          csrf_protect(c, method, form)
    /\ UNCHANGED <<limvars, RATE_LIMITS, APP_RATE_LIMITS, cfg, secvars>>

NextCsrf == Generate \/ View

SpecCsrf == Init /\ [][NextCsrf]_vars

\* ---- security.py: the RateLimiter class ---------------------------------------------------
\* The names lines 1-5 bind in the module.
SecurityGlobals ==
    {"functools", "os", "secrets", "abort", "flash", "redirect", "request", "session",
     "url_for", "wraps"}

Identifiers == {"x", "y"}

\* self.requests.get(identifier, [])
Timestamps(reqs, identifier) ==
    IF identifier \in DOMAIN reqs THEN reqs[identifier] ELSE <<>>

RECURSIVE Recently(_, _, _)
\* [t for t in ... if current_time - t < self.window], lines 115-116
Recently(stamps, current_time, w) ==
    IF stamps = <<>> THEN <<>>
    ELSE IF current_time - Head(stamps) < w * TicksPerSec
         THEN <<Head(stamps)>> \o Recently(Tail(stamps), current_time, w)
         ELSE Recently(Tail(stamps), current_time, w)

\* is_rate_limited, lines 111-127: what the call returns or raises, and the
\* dict afterwards.  Line 112 reads the global name time first.
is_rate_limited(reqs, identifier, current_time) ==
    IF "time" \notin SecurityGlobals
    THEN [raised |-> "NameError", result |-> FALSE, requests |-> reqs]
    ELSE LET kept == Recently(Timestamps(reqs, identifier), current_time, window)
             cleaned == [i \in (DOMAIN reqs) \cup {identifier} |->
                            IF i = identifier THEN kept ELSE reqs[i]]
         IN  IF Len(kept) >= max_requests
             THEN [raised |-> "none", result |-> TRUE, requests |-> cleaned]
             ELSE [raised |-> "none", result |-> FALSE,
                   requests |-> [cleaned EXCEPT ![identifier] = Append(@, current_time)]]

Call_is_rate_limited ==
    \E identifier \in Identifiers :
        LET r == is_rate_limited(requests, identifier, now)
        IN  /\ requests' = r.requests
            /\ rl' = [fn |-> "is_rate_limited", identifier |-> identifier,
                      current_time |-> now, raised |-> r.raised, result |-> r.result,
                      before |-> requests]
            /\ UNCHANGED <<limvars, RATE_LIMITS, APP_RATE_LIMITS, cfg, testing, deco, resp,
                           session, csrf, max_requests, window>>

TickSliding ==
    /\ now < MaxTimeSliding
    /\ Tick

\* RateLimiter(max_requests, window) is constructed with any numbers within the
\* bounds.
InitSliding ==
    /\ now = 0
    /\ limit = [k \in Keys |-> 1]
    /\ per = [k \in Keys |-> 1]
    /\ rate_limits = <<>>
    /\ last = NoRequest
    /\ log = [k \in Keys |-> <<>>]
    /\ pc = [t \in Threads |-> "idle"]
    /\ tkey = [t \in Threads |-> "A"]
    /\ expired_keys = [t \in Threads |-> {}]
    /\ tread = [t \in Threads |-> NoRead]
    /\ RATE_LIMITS = ConfigTable
    /\ APP_RATE_LIMITS = AppTable
    /\ cfg = NoCall
    /\ testing = FALSE
    /\ deco = [k \in Keys |-> NoRoute]
    /\ resp = NoResponse
    /\ session = [c \in Clients |-> NoToken]
    /\ csrf = NoCall
    /\ max_requests \in 1..MaxRequests
    /\ window \in 1..MaxWindow
    /\ requests = <<>>
    /\ rl = NoCall

NextSliding == TickSliding \/ Call_is_rate_limited

SpecSliding == InitSliding /\ [][NextSliding]_vars

\* ---- properties ---------------------------------------------------------------------
Served == last.outcome # "none"
WasAdmitted == last.outcome = "admitted"
WasRejected == last.outcome = "rejected"

\* Every window expiry under which an admission of k is on record.
Expiries(k) == {log[k][i][2] : i \in 1..Len(log[k])}

\* No window has had more admissions than the limit of its key.
CapPerWindow == \A k \in Keys : \A e \in Expiries(k) : InWindow(log, k, e) <= limit[k]

\* C1 (hard cap, sequential): of the requests that fall into one window of a
\* key, handled one after another, a request is admitted exactly when fewer
\* than limit requests were admitted in that window before it; so the first
\* limit are admitted, the rest rejected, and no window takes more than limit.
C1_HardCapSequential ==
    /\ CapPerWindow
    /\ (Served /\ last.live) =>
          (WasAdmitted <=> last.before < limit[last.key])

C1_Witness ==
    /\ WasRejected /\ last.live
    /\ limit[last.key] >= 2
    /\ last.before = limit[last.key]

\* C2 (hard cap, concurrent): with the steps of several requests for one key
\* interleaved, the number of requests admitted in one window never exceeds
\* the limit.
C2_HardCapConcurrent == CapPerWindow

\* C3 (window reset): a request for a key that has an entry and whose clock
\* reading is strictly later than that entry's expiry is admitted, and the
\* entry stored afterwards has count 1 and expiry = that reading + window.
C3_WindowReset ==
    (Served /\ last.had /\ last.current_time > last.pre[1]) =>
        /\ WasAdmitted
        /\ Has(rate_limits, last.key)
        /\ rate_limits[last.key] = <<last.current_time + PerTicks(last.key), 1>>

C3_Witness ==
    /\ WasAdmitted /\ last.had
    /\ last.pre[2] = limit[last.key]
    /\ last.current_time > last.pre[1]
    /\ last.sweep_time < last.pre[1]

\* C4 (count bounded): in every state of the shared dict, the count stored
\* for a key is at most the limit of the route the key belongs to.
C4_CountAtMostLimit ==
    \A k \in DOMAIN rate_limits : rate_limits[k][2] <= limit[k]

C4_Witness ==
    /\ \E t \in Threads : pc[t] = "check"
    /\ \E k \in DOMAIN rate_limits : limit[k] >= 2 /\ rate_limits[k][2] = limit[k]

\* C5 (rejection does not mutate): when a request is rejected, the key had
\* an entry before the call and holds the same entry after it.
C5_RejectionKeepsEntry ==
    WasRejected =>
        /\ last.had
        /\ Has(rate_limits, last.key)
        /\ rate_limits[last.key] = last.pre

C5_Witness == WasRejected /\ last.had /\ last.sweep_time < last.current_time

\* What a request for key b that sweeps at s and compares at c makes of dict d:
\* whether it is admitted, the window it compares, the entry it leaves for b.
ResultFor(d, b, s, c) ==
    LET h == Handle(d, b, s, c)
    IN  <<h.admitted, h.w, IF Has(h.dict, b) THEN h.dict[b] ELSE <<>> >>

\* C6 (key independence): a request for key a leaves the entry of another key
\* b untouched while b's window is live, and leaves the outcome of every later
\* request for b what it would have been without the request for a.
C6_KeyIndependence ==
    [][\A a \in Keys, b \in Keys, d \in 0..MaxDrift :
          (a # b /\ rate_limited(a, now, now + d)) =>
              /\ (Has(rate_limits, b) /\ rate_limits[b][1] > now) =>
                    (Has(rate_limits', b) /\ rate_limits'[b] = rate_limits[b])
              /\ \A s \in now'..MaxTime : \A c \in s..(s + MaxDrift) :
                    ResultFor(rate_limits', b, s, c) = ResultFor(rate_limits, b, s, c)]_vars

C6_Witness ==
    /\ Served /\ last.key = "A"
    /\ Has(rate_limits, "B") /\ rate_limits["B"][1] > now
    /\ rate_limits["B"][2] = limit["B"]

\* The admissions of key k in the interval (now - window, now].
Recent(k) == {i \in 1..Len(log[k]) : log[k][i][1] > now - PerTicks(k)}

\* C7 (as claimed): every interval of one window length holds at most limit
\* admissions of a key.
C7_SlidingWindow == \A k \in Keys : Cardinality(Recent(k)) <= limit[k]

\* C7 (amended): with requests handled one after another, every half-open
\* interval of one window length holds at most 2 * limit - 1 admissions of a key.
C7_FixedWindowBound == \A k \in Keys : Cardinality(Recent(k)) <= 2 * limit[k] - 1

C7_Witness ==
    \E k \in Keys : limit[k] >= 2 /\ Cardinality(Recent(k)) = 2 * limit[k] - 1

\* C8 (retry hint is the ceiling): a rejected request reports
\* retry_after = ceil(expiry - current_time).
C8_RetryAfterIsCeil ==
    WasRejected => last.retry_after = CeilSec(last.expiry - last.current_time)

\* C9 (retry hint within the window): a rejected request reports a
\* retry_after of at most the window length of its route.
C9_RetryAfterAtMostWindow ==
    WasRejected => last.retry_after <= per[last.key]

\* C10 (admitted headers): the k-th admitted request of a window reports
\* X-RateLimit-Limit = limit, X-RateLimit-Remaining = limit - k and
\* X-RateLimit-Reset = int(expiry of the window), the expiry being that of the
\* stored entry, unchanged by every admission after the one that opened the
\* window.
C10_AdmittedHeaders ==
    WasAdmitted =>
        /\ last.x_limit = limit[last.key]
        /\ last.x_remaining = limit[last.key] - (last.before + 1)
        /\ Has(rate_limits, last.key)
        /\ last.x_reset = IntSec(rate_limits[last.key][1])
        /\ last.live => rate_limits[last.key][1] = last.pre[1]
        /\ ~last.live =>
              /\ last.before = 0
              /\ rate_limits[last.key][1] = last.current_time + PerTicks(last.key)

C10_Witness ==
    /\ WasAdmitted /\ last.live
    /\ limit[last.key] >= 2
    /\ last.x_remaining = 0

\* C11 (retry hint never grows inside a window): of two requests refused for
\* the same key in the same window at times t1 < t2, the later one reports a
\* retry_after that is not larger; and every later request that the limiter
\* would refuse in that window reports a retry_after that is not larger.
C11_RetryAfterMonotone ==
    WasRejected =>
        /\ (last.prev # <<>> /\ last.prev[1] < last.current_time) =>
              last.prev[2] >= last.retry_after
        /\ \A s \in now..MaxTime : \A c \in s..(s + MaxDrift) :
              LET h == Handle(rate_limits, last.key, s, c)
              IN  (c > last.current_time /\ ~h.admitted /\ h.w[1] = last.expiry) =>
                      RetryAfter(h.w[1], c) <= last.retry_after

C11_Witness ==
    /\ WasRejected
    /\ last.prev # <<>>
    /\ last.prev[1] < last.current_time
    /\ last.prev[2] > last.retry_after

\* C12 (invalid arguments fail fast): a route whose limit or window is not
\* positive never gives a request an ordinary outcome, admitted or refused.
C12_InvalidFailsFast ==
    \A k \in Keys :
        (limit[k] <= 0 \/ per[k] <= 0) => ~(Served /\ last.key = k)

\* C13 (reset boundary is inclusive): a request for a key that has an entry
\* and whose clock reading is at or after that entry's expiry is counted in a
\* fresh window: it is admitted and leaves count 1 and expiry = reading + window.
C13_ResetInclusive ==
    (Served /\ last.had /\ last.current_time >= last.pre[1]) =>
        /\ WasAdmitted
        /\ Has(rate_limits, last.key)
        /\ rate_limits[last.key] = <<last.current_time + PerTicks(last.key), 1>>

\* C14 (refusal becomes a 429 response): every refusal of the limiter is
\* answered by the 429 handler with status 429, a Retry-After header equal to
\* retry_after and a body of type rate_limit_exceeded carrying retry_after.
C14_RejectionIs429 ==
    WasRejected =>
        LET r == ErrorResponse(Raised(last.retry_after))
        IN  /\ r.handler = "ratelimit_error"
            /\ r.status = 429
            /\ r.retry_after_header = last.retry_after
            /\ r.type = "rate_limit_exceeded"
            /\ r.retry_after = last.retry_after

\* ---- the lookups -------------------------------------------------------------------------
Called(fn) == cfg.fn = fn

Reversed(m) == [i \in 1..Len(m) |-> m[Len(m) + 1 - i]]

\* The limit of the longest prefix in the map that the endpoint starts with.
LongestPrefixLimit(endpoint, m) ==
    LET matching == {i \in 1..Len(m) : StartsWith(endpoint, m[i][1])}
    IN  IF matching = {} THEN Ok(<<100, 60>>)
        ELSE m[CHOOSE i \in matching :
                  \A j \in matching : Len(m[j][1]) <= Len(m[i][1])][2]

\* C16: get_rate_limit_for_endpoint returns the pair of the longest prefix of
\* the table the endpoint starts with, the same whatever the order in which the
\* entries are iterated, and (100, 60) when the endpoint starts with none.
C16_LongestPrefix ==
    Called("get_rate_limit_for_endpoint") =>
        LET endpoint == cfg.args.endpoint
            m == endpoint_map(ConfigTable)
        IN  /\ cfg.result = LongestPrefixLimit(endpoint, m)
            /\ cfg.result = FirstMatch(endpoint, Reversed(m))
            /\ (\A i \in 1..Len(m) : ~StartsWith(endpoint, m[i][1])) =>
                  cfg.result = Ok(<<100, 60>>)

C16_Witness ==
    /\ Called("get_rate_limit_for_endpoint")
    /\ cfg.args.endpoint = E_api_public_hello
    /\ cfg.result = Ok(<<100, 60>>)

\* C17: the 'auth.login' entry gives (5, 60) to the endpoint 'auth.login' alone,
\* not to one that only begins with it; and an endpoint that starts with 'api.'
\* gets a limit of the category 'api', which is api.default (1000, 3600) when it
\* starts with no more specific api entry.
C17_ExactAndApiPrefix ==
    Called("get_rate_limit_for_endpoint") =>
        LET endpoint == cfg.args.endpoint
        IN  /\ StartsWith(endpoint, P_auth_login) /\ endpoint # P_auth_login =>
                  cfg.result # Ok(<<5, 60>>)
            /\ StartsWith(endpoint, P_api) =>
                  /\ cfg.result.ok
                  /\ cfg.result.v \in {ConfigTable["api"].sub[x] :
                                          x \in DOMAIN ConfigTable["api"].sub}
                  /\ ~StartsWith(endpoint, P_api_v1) /\ ~StartsWith(endpoint, P_api_public) =>
                        cfg.result = Ok(<<1000, 3600>>)

\* What a lookup returns for its arguments from the tables as they are written.
Resolved(fn, args) ==
    CASE fn = "get_rate_limit" -> get_rate_limit(ConfigTable, args.category, args.subcategory)
      [] fn = "get_rate_limit_for_endpoint" ->
            get_rate_limit_for_endpoint(ConfigTable, args.endpoint)
      [] fn = "app_get_rate_limit" -> app_get_rate_limit(AppTable, args.app_category)

IsResolution(fn) ==
    fn \in {"get_rate_limit", "get_rate_limit_for_endpoint", "app_get_rate_limit"}

\* C18: a call of get_rate_limit or get_rate_limit_for_endpoint returns what its
\* arguments alone determine, whatever the limiter has done before and between
\* two calls, and leaves the tables and the dict of the limiter as they were.
C18_ResolutionPure ==
    [][/\ RATE_LIMITS' = RATE_LIMITS
       /\ APP_RATE_LIMITS' = APP_RATE_LIMITS
       /\ cfg' # cfg =>
             /\ rate_limits' = rate_limits
             /\ IsResolution(cfg'.fn) => cfg'.result = Resolved(cfg'.fn, cfg'.args)
       /\ cfg' # cfg /\ cfg.fn = cfg'.fn /\ IsResolution(cfg.fn) /\ cfg.args = cfg'.args =>
             cfg'.result = cfg.result]_vars

C18_Witness ==
    /\ Called("get_rate_limit")
    /\ cfg.result = Ok(<<5, 60>>)
    /\ WasRejected
    /\ rate_limits # <<>>

\* The subject of a request: its user when it has a uid, else its address.
Subject(request) ==
    IF request.user.kind = "uid"
    THEN [uid |-> request.user.uid]
    ELSE [address |-> IF request.remote_addr = <<>> THEN Unknown ELSE request.remote_addr]

EndpointOf(request) == IF request.endpoint = <<>> THEN Unknown ELSE request.endpoint

\* C19: the key of a request is made of the uid of its user when it has one,
\* so that one user has one key from any address, else of its address; and of
\* its endpoint, so that one subject has different keys, hence by C6 budgets
\* that do not touch, on different endpoints.
C19_KeyDerivation ==
    Called("get_ratelimit_key") =>
        LET request == cfg.args.request
        IN  /\ request.user.kind = "uid" =>
                  cfg.result = UserPrefix \o request.user.uid \o Colon \o EndpointOf(request)
            /\ request.user.kind # "uid" /\ request.remote_addr # <<>> =>
                  cfg.result = request.remote_addr \o Colon \o EndpointOf(request)
            /\ \A other \in Requests :
                  /\ Subject(other) = Subject(request)
                     /\ EndpointOf(other) = EndpointOf(request) =>
                        get_ratelimit_key(other) = cfg.result
                  /\ Subject(other) = Subject(request)
                     /\ EndpointOf(other) # EndpointOf(request) =>
                        get_ratelimit_key(other) # cfg.result

C19_Witness ==
    /\ Called("get_ratelimit_key")
    /\ cfg.args.request.user.kind = "uid"
    /\ cfg.args.request.remote_addr # <<>>
    /\ cfg.args.request.endpoint = E_search_query

\* C20: when a request has completed its check after a sweep at time t, the
\* dict holds no entry, of any key, whose expiry is <= t; and an entry comes
\* into the dict only by a request of its key that is admitted.
C20_SweptBeforeCheck ==
    /\ [](Served => \A k \in DOMAIN rate_limits : rate_limits[k][1] > last.sweep_time)
    /\ [][\A k \in Keys :
             k \notin DOMAIN rate_limits /\ k \in DOMAIN rate_limits' =>
                last'.outcome = "admitted" /\ last'.key = k]_vars

C20_Witness ==
    /\ WasAdmitted
    /\ last.had
    /\ last.pre[1] <= last.sweep_time
    /\ \E k \in DOMAIN rate_limits : k # last.key

\* ---- after a refusal ----------------------------------------------------------------------
\* The times a request may read the clock at, from retry_after seconds after
\* the refusal on.
RetryTimes ==
    LET from == last.current_time + last.retry_after * TicksPerSec
    IN  from..(from + TicksPerSec + MaxDrift)

\* C26: a refusal at time t gives a retry_after r of at least one second, and
\* the next request of the key that reads the clock at or after t + r is
\* admitted, whether the entry is still in the dict or was swept meanwhile,
\* when no request of the key was admitted in between.
C26_RetryHintSufficient ==
    WasRejected =>
        /\ last.retry_after >= 1
        /\ \A c \in RetryTimes, d \in 0..MaxDrift :
              c - d >= last.current_time =>
                 /\ Handle(rate_limits, last.key, c - d, c).admitted
                 /\ Handle(PopAll(rate_limits, {last.key}), last.key, c - d, c).admitted

C26_Witness ==
    /\ WasRejected
    /\ last.retry_after >= 2
    /\ last.current_time > 0

\* C27: a request that falls in the window of its key, admitted or refused,
\* leaves the expiry of the entry where the first admission of the window put
\* it, at that request's time + per; and a request that reads the clock after
\* the expiry, or finds no entry, is admitted.  The expiry of an entry changes
\* only when a new window is opened, at the old expiry or later.
C27_TrafficKeepsExpiry ==
    /\ [](Served =>
            /\ last.live =>
                  /\ Has(rate_limits, last.key)
                  /\ rate_limits[last.key][1] = last.pre[1]
            /\ WasAdmitted /\ ~last.live =>
                  rate_limits[last.key] = <<last.current_time + PerTicks(last.key), 1>>
            /\ WasRejected => last.live
            /\ last.had /\ last.current_time > last.pre[1] => WasAdmitted
            /\ ~last.had => WasAdmitted)
    /\ [][\A k \in Keys :
             Has(rate_limits, k) /\ Has(rate_limits', k)
             /\ rate_limits'[k][1] # rate_limits[k][1] =>
                /\ last'.outcome = "admitted"
                /\ last'.key = k
                /\ last'.current_time >= rate_limits[k][1]]_vars

C27_Witness ==
    /\ WasAdmitted
    /\ last.had
    /\ last.current_time > last.pre[1]
    /\ last.pre[2] >= limit[last.key]
    /\ last.before = 0

\* ---- failures -----------------------------------------------------------------------------
FirebaseErrors ==
    {"FirebaseServiceError", "FirebaseAuthError", "FirebaseNotFoundError",
     "FirebaseValidationError"}

\* C22: what a function raises inside handle_firebase_errors leaves the wrapper
\* as a FirebaseServiceError or a subclass, with a code among 400, 401, 403,
\* 404 and 500, and is answered with that code as status and a type; an
\* exception no handler is more specific for than the one for Exception is
\* answered 500 with the one generic message, with DEBUG set or not.
C22_TypedErrors ==
    Called("handle_firebase_errors") =>
        LET error == cfg.result.error
            response == cfg.result.response
        IN  /\ cfg.args.wrapped =>
                  /\ error.class \in FirebaseErrors
                  /\ error.code \in {400, 401, 403, 404, 500}
                  /\ response.status = error.code
                  /\ response.type \in {"authentication_error", "not_found",
                                        "validation_error", "service_error"}
            /\ response.handler = "handle_exception" =>
                  /\ response.status = 500
                  /\ response.message = "An unexpected error occurred."
                  /\ response = ErrorResponseIn(error, ~cfg.args.debug)

\* ---- decorated routes ---------------------------------------------------------------------
Answered == resp.outcome # "none"
RouteOf == deco[resp.key]

\* C21: a route decorated with rate_limit(category=c) and no numbers is limited
\* by the pair the table of config/rate_limits.py has for c; a category that
\* table has not is an error and is not limited by a default.
C21_CategoryFromConfigTable ==
    Answered /\ resp.limiter /\ RouteOf.category # None
             /\ RouteOf.limit = <<>> /\ RouteOf.per = <<>> =>
        LET configured == get_rate_limit(ConfigTable, RouteOf.category, None)
        IN  /\ configured.ok
            /\ <<resp.config.limit, resp.config.per>> = configured.v
            /\ <<limit[resp.key], per[resp.key]>> = configured.v

\* C23: numbers given to rate_limit are the ones enforced: with both given
\* nothing is looked up; with one given only the other comes from the lookup,
\* which goes by the category when there is one and else by the endpoint.
C23_ExplicitOverrides ==
    Answered /\ resp.limiter =>
        LET route == RouteOf
            looked == IF route.category # None
                      THEN app_get_rate_limit(AppTable, route.category)
                      ELSE get_rate_limit_for_endpoint(ConfigTable, route.endpoint)
        IN  /\ limit[resp.key] = resp.config.limit
            /\ per[resp.key] = resp.config.per
            /\ route.limit # <<>> => resp.config.limit = route.limit[1]
            /\ route.per # <<>> => resp.config.per = route.per[1]
            /\ route.limit # <<>> /\ route.per # <<>> => resp.config.lookup = "none"
            /\ route.limit = <<>> \/ route.per = <<>> =>
                  resp.config.lookup = IF route.category # None THEN "get_app_rate_limit"
                                       ELSE "get_rate_limit_for_endpoint"
            /\ route.limit = <<>> => resp.config.limit = looked.v[1]
            /\ route.per = <<>> => resp.config.per = looked.v[2]

C23_Witness ==
    /\ Answered
    /\ resp.limiter
    /\ RouteOf.limit # <<>>
    /\ RouteOf.per = <<>>
    /\ resp.config.limit = 1
    /\ resp.config.per = 60

\* C24: with TESTING set no request is refused by the limiter, every request
\* that reaches rate_limit gets to what rate_limit wraps, and the dict is never
\* written: it stays as it was, empty, however many requests are made.
C24_TestingBypass ==
    testing =>
        /\ rate_limits = <<>>
        /\ last = NoRequest
        /\ Answered =>
              /\ resp.outcome # "refused"
              /\ ~resp.limiter
              /\ RouteOf.decorators = <<"rate_limit">> => resp.handler
              /\ FirstRefusal(RouteOf.decorators, RouteOf, resp.user) = 0 => resp.handler

C24_Witness ==
    /\ testing
    /\ Answered
    /\ resp.key = "B"
    /\ resp.handler
    /\ resp.raises

\* C25: the count of an admitted request is stored before the handler runs and
\* stays stored when the handler raises: the entry of the key is the window
\* that was compared with its count incremented once, and the rest of the dict
\* is what the sweep left.
C25_SlotNotRefunded ==
    Answered /\ resp.limiter /\ resp.handler =>
        /\ WasAdmitted
        /\ last.key = resp.key
        /\ Has(rate_limits, resp.key)
        /\ rate_limits[resp.key] = <<last.expiry, last.count>>
        /\ last.live => last.count = last.pre[2] + 1
        /\ ~last.live => last.count = 1
        /\ \A k \in Keys \ {resp.key} :
              /\ Has(rate_limits, k) => Has(resp.before, k) /\ rate_limits[k] = resp.before[k]
              /\ Has(resp.before, k) /\ ~Has(rate_limits, k) =>
                    resp.before[k][1] <= last.sweep_time

C25_Witness ==
    /\ Answered
    /\ resp.limiter
    /\ resp.outcome = "raised"
    /\ last.live
    /\ rate_limits[resp.key][2] = 2

\* C28: where require_auth (and require_role) are outside rate_limit, a request
\* without a user is answered 401, and one of a user without the role 403,
\* before the limiter is reached: the dict is as it was and the handler is not
\* invoked.  So it is on create_product and admin_stats.
C28_AuthBeforeLimiter ==
    Answered =>
        LET route == RouteOf
            authOutside == \E i \in 1..Len(Outside(route)) :
                               Outside(route)[i] = "require_auth"
            roleOutside == \E i \in 1..Len(Outside(route)) :
                               Outside(route)[i] = "require_role"
        IN  /\ route.endpoint \in {E_api_create_product, E_api_admin_stats} =>
                  authOutside /\ roleOutside
            /\ authOutside /\ resp.user.kind # "user" =>
                  /\ resp.status = 401
                  /\ ~resp.limiter
                  /\ ~resp.handler
                  /\ rate_limits = resp.before
            /\ authOutside /\ roleOutside /\ resp.user.kind = "user"
               /\ route.role \notin resp.user.roles =>
                  /\ resp.status = 403
                  /\ ~resp.limiter
                  /\ ~resp.handler
                  /\ rate_limits = resp.before

C28_Witness ==
    /\ Answered
    /\ RouteOf = admin_stats
    /\ resp.status = 403
    /\ resp.user.roles = {"seller"}
    /\ ~testing
    /\ Has(rate_limits, "B")

\* ---- security.py --------------------------------------------------------------------------
\* C29: a POST under csrf_protect is let through only when the session has a
\* token and the form token equals it; let through or answered 403, it leaves
\* the session without token, so the same token posted again is refused unless
\* generate_csrf_token has stored a token in between; another method leaves the
\* token where it is; generate_csrf_token returns the stored token while there
\* is one.
C29_CsrfSingleUse ==
    /\ csrf.fn = "csrf_protect" /\ csrf.method = "POST" =>
          /\ session[csrf.client] = NoToken
          /\ csrf.status \in {200, 403}
          /\ csrf.status = 200 <=> (csrf.before # NoToken /\ csrf.form = csrf.before)
          /\ csrf.replay => csrf.status = 403
    /\ csrf.fn = "csrf_protect" /\ csrf.method # "POST" =>
          /\ session[csrf.client] = csrf.before
          /\ csrf.status = 200
    /\ csrf.fn = "generate_csrf_token" =>
          /\ csrf.result = session[csrf.client]
          /\ csrf.result \in Tokens
          /\ csrf.before # NoToken => csrf.result = csrf.before

C29_Witness ==
    /\ csrf.fn = "csrf_protect"
    /\ csrf.replay
    /\ csrf.status = 403
    /\ csrf.form \in Tokens

\* The timestamps of an identifier that are less than a window old.
RecentStamps(reqs, identifier, current_time) ==
    {i \in 1..Len(Timestamps(reqs, identifier)) :
        current_time - Timestamps(reqs, identifier)[i] < window * TicksPerSec}

\* C30: is_rate_limited(identifier) at time t returns False and records t when
\* fewer than max_requests timestamps of the identifier are less than a window
\* old, returns True and records nothing otherwise, and leaves the other
\* identifiers alone.
C30_SlidingWindowLog ==
    rl.fn = "is_rate_limited" =>
        LET recent == Cardinality(RecentStamps(rl.before, rl.identifier, rl.current_time))
        IN  /\ rl.raised = "none"
            /\ rl.result = (recent >= max_requests)
            /\ ~rl.result =>
                  /\ rl.identifier \in DOMAIN requests
                  /\ Len(requests[rl.identifier]) = recent + 1
                  /\ requests[rl.identifier][recent + 1] = rl.current_time
            /\ \A i \in Identifiers \ {rl.identifier} :
                  Timestamps(requests, i) = Timestamps(rl.before, i)

TypeOK ==
    /\ now \in 0..MaxTime
    /\ DOMAIN rate_limits \subseteq Keys
    /\ \A k \in DOMAIN rate_limits : rate_limits[k][2] \in Nat
====
